---- MODULE Spec2Model ----
(***************************************************************************)
(* Model of homeassistant/auth.py: the AuthStore (lazily loaded users and  *)
(* clients), the AuthManager operations that delegate to it, the constant  *)
(* work client lookup, the login-flow bridge, and auth_manager_from_config *)
(* which registers the providers of a list of configurations.              *)
(*                                                                         *)
(* Scheduling: asyncio tasks on one event loop.  A task runs without       *)
(* interruption from one `await` to the next; every `await` of the source  *)
(* (load, save, provider hooks) is a point where another task may run.     *)
(* Each action below is the code between two such points.  pc[t] is the    *)
(* await a task is suspended at, call[t] its local variables.  Whether an  *)
(* await yields is up to what is awaited: async_load, async_save and the   *)
(* provider hooks are the places a persistence backend or a provider does  *)
(* its I/O, and the model lets every one of them yield.                    *)
(*                                                                         *)
(* Objects (User, Credentials, Client) are heap cells: userObj, credObj    *)
(* and clientObj are indexed by object identity (1, 2, ...), and the       *)
(* store's lists hold identities, as Python lists hold references.         *)
(***************************************************************************)
EXTENDS Integers, Sequences, FiniteSets, TLC

\* ------------------------------------------------------------- bounds
NumTasks == 2
MaxUsers == 2
MaxCreds == 2
MaxClients == 2
MaxTokens == 1
MaxLinks == 1
MaxFlows == 2
MaxConfigs == 3

Tasks == 1..NumTasks

\* ------------------------------------------------------------- values
\* `None` for AuthStore.users / AuthStore.clients: a value that is no list
\* of object identities (identities start at 1).
Unloaded == <<0>>
\* Outcome of a call that raised.
Raise == -1
\* Python None as a returned object.
NoObject == 0

\* The registered providers, keyed (type, id) as AuthManager._providers is.
\* Two providers of type "demo" differ in id only.
Providers == { <<"demo", "None">>, <<"demo", "second">>, <<"pw", "None">> }

\* AuthManager._providers before auth_manager_from_config has built it: a
\* value that is no list of providers (a provider is named by the position
\* of its configuration, starting at 1).
Unbuilt == <<0>>

\* What importing and validating one configuration comes to: the provider
\* is built, the module is None (ImportError, or its requirements failed),
\* or CONFIG_SCHEMA raises vol.Invalid.
Outcomes == {"provider", "no_module", "invalid"}

\* The provider configurations a manager may be given: CONF_TYPE, CONF_ID
\* (absent: "None"), CONF_NAME, and what loading the provider comes to.
Configs ==
    [type : {"demo", "pw"}, id : {"None", "second"}, name : {"a", "b"},
     outcome : Outcomes]

\* The configuration of the manager whose operations are modelled: the
\* three providers of Providers.
Configuration ==
    << [type |-> "demo", id |-> "None", name |-> "a", outcome |-> "provider"],
       [type |-> "demo", id |-> "second", name |-> "a", outcome |-> "provider"],
       [type |-> "pw", id |-> "None", name |-> "a", outcome |-> "provider"] >>

\* Keys (type, id) of Credentials a caller holds that no registered provider
\* has: the type is registered, the id is not.
UnregisteredProviders == { <<"demo", "gone">> }

ClientNames == {"dash"}
TokenClientIds == {1}
\* client_id arguments of secure_get_client: every id that may exist and
\* one that never does.
ClientIdArgs == 1..(MaxClients + 1)

VARIABLES
    users,        \* AuthStore.users: Unloaded or a list of User identities
    clients,      \* AuthStore.clients: Unloaded or a list of Client identities
    load_lock,    \* AuthStore._load_lock is held
    userObj,      \* the User objects ever constructed
    credObj,      \* the Credentials objects ever constructed
    clientObj,    \* the Client objects ever constructed
    initialized,  \* AuthProvider.initialized, per provider
    pc,           \* per task: "idle" or the await it is suspended at
    call,         \* per task: the running call's arguments and locals
    log,          \* history: the store calls that completed last, in a row
    loadCount,    \* how often the body of async_load has run
    linkCalls,    \* link_user calls made by callers of the manager
    initCount,    \* per provider: invocations of async_initialize
    flowCalls,    \* per provider: create_login_flow calls started
    flowCount,    \* per provider: credential flows returned
    initDone,     \* per provider: an async_initialize call has returned
    provider_configs, \* the provider configurations the manager is built from
    providers     \* AuthManager._providers: the registered providers, in order

storeVars == <<users, clients, load_lock, userObj, credObj, clientObj, log, loadCount,
              linkCalls>>
flowVars == <<initialized, initCount, flowCalls, flowCount, initDone>>
configVars == <<provider_configs, providers>>
vars == <<users, clients, load_lock, userObj, credObj, clientObj, initialized,
          pc, call, log, loadCount, linkCalls, initCount, flowCalls, flowCount,
          initDone, provider_configs, providers>>

\* ------------------------------------------------------------- helpers
NoCall == [op |-> "none", cred |-> 0, user |-> 0, client |-> 0, handler |-> <<>>]

Range(s) == { s[i] : i \in 1..Len(s) }

\* What the store shows of its users: each User of the collection with its
\* credentials and tokens, in order.
StoreView(us, uo) ==
    IF us = Unloaded THEN Unloaded
    ELSE [i \in 1..Len(us) |->
            [user |-> us[i], credentials |-> uo[us[i]].credentials,
             tokens |-> uo[us[i]].tokens]]

\* Everything the store and its objects hold.
StoreState == <<users, clients, userObj, credObj, clientObj>>

\* An entry of log, written by the step that completes a call: the call's
\* arguments, its outcome (ret: the object returned, NoObject or Raise;
\* error: the exception raised; list: the list returned), the comparisons a
\* lookup made, the store's users before and after that step, and whether
\* that step (the code after the call's last await) changed anything.
Done(op) ==
    [op |-> op, cred |-> 0, is_new |-> FALSE, user |-> 0, client_id |-> 0,
     provider |-> <<>>, ret |-> NoObject, error |-> "none", list |-> <<>>,
     steps |-> 0,
     before |-> StoreView(users, userObj), after |-> StoreView(users', userObj'),
     changed |-> (StoreState' # StoreState)]

\* Operations whose consecutive calls are compared with each other.
PairedOps == {"get_or_create_user"}

\* log is the call that completed last, preceded by the call that completed
\* immediately before it when both are the same paired operation.
Push(l, e) ==
    IF l # <<>> /\ l[Len(l)].op = e.op /\ e.op \in PairedOps
    THEN <<l[Len(l)], e>>
    ELSE <<e>>

Finish(t) ==
    /\ pc' = [pc EXCEPT ![t] = "idle"]
    /\ call' = [call EXCEPT ![t] = NoCall]

Suspend(t, at, c) ==
    /\ pc' = [pc EXCEPT ![t] = at]
    /\ call' = [call EXCEPT ![t] = c]

\* ------------------------------------------------------------- configuration
\* _auth_provider_from_config for the configuration at position i: the
\* provider built from it (named by i), or None.
AuthProviderFromConfig(configs, i) ==
    IF configs[i].outcome = "provider" THEN i ELSE NoObject

\* asyncio.gather over the configurations: the results in the order of the
\* configurations.
Gather(configs) == [i \in 1..Len(configs) |-> AuthProviderFromConfig(configs, i)]

\* key = (provider.type, provider.id)
ProviderKey(configs, provider) == <<configs[provider].type, configs[provider].id>>

\* Mutant of ProviderHash: no test for a key that is registered already, so
\* a later provider replaces the earlier one of its key, in its place.
RECURSIVE ProviderHashOverwrites(_, _, _)
ProviderHashOverwrites(configs, gathered, provider_hash) ==
    IF gathered = <<>> THEN provider_hash
    ELSE LET provider == Head(gathered)
         IN  IF provider = NoObject
             THEN ProviderHashOverwrites(configs, Tail(gathered), provider_hash)
             ELSE IF \E k \in 1..Len(provider_hash) :
                        ProviderKey(configs, provider_hash[k])
                            = ProviderKey(configs, provider)
             THEN ProviderHashOverwrites(configs, Tail(gathered),
                      [k \in 1..Len(provider_hash) |->
                          IF ProviderKey(configs, provider_hash[k])
                                 = ProviderKey(configs, provider)
                          THEN provider ELSE provider_hash[k]])
             ELSE ProviderHashOverwrites(configs, Tail(gathered),
                                         Append(provider_hash, provider))

\* The loop of auth_manager_from_config over the gathered providers:
\* provider_hash is the OrderedDict built so far, as the list of its values
\* in insertion order.
RECURSIVE ProviderHash(_, _, _)
ProviderHash(configs, gathered, provider_hash) ==
    IF gathered = <<>> THEN provider_hash
    ELSE LET provider == Head(gathered)
         IN  IF provider = NoObject
             THEN ProviderHash(configs, Tail(gathered), provider_hash)
             ELSE IF \E k \in 1..Len(provider_hash) :
                        ProviderKey(configs, provider_hash[k])
                            = ProviderKey(configs, provider)
             THEN ProviderHash(configs, Tail(gathered), provider_hash)
             ELSE ProviderHash(configs, Tail(gathered),
                               Append(provider_hash, provider))

\* auth_manager_from_config(hass, provider_configs): an empty list of
\* configurations registers nothing.
AuthManagerFromConfig ==
    /\ providers = Unbuilt
    /\ providers' = IF provider_configs = <<>> THEN <<>>
                    ELSE ProviderHash(provider_configs, Gather(provider_configs), <<>>)
    /\ UNCHANGED <<storeVars, flowVars, pc, call, provider_configs>>

\* ------------------------------------------------------------- Init
Init ==
    /\ users = Unloaded
    /\ clients = Unloaded
    /\ load_lock = FALSE
    /\ userObj = <<>>
    /\ credObj = <<>>
    /\ clientObj = <<>>
    /\ initialized = [p \in Providers |-> FALSE]
    /\ pc = [t \in Tasks |-> "idle"]
    /\ call = [t \in Tasks |-> NoCall]
    /\ log = <<>>
    /\ loadCount = 0
    /\ linkCalls = 0
    /\ initCount = [p \in Providers |-> 0]
    /\ flowCalls = [p \in Providers |-> 0]
    /\ flowCount = [p \in Providers |-> 0]
    /\ initDone = [p \in Providers |-> FALSE]
    /\ provider_configs = Configuration
    /\ providers = ProviderHash(Configuration, Gather(Configuration), <<>>)

\* A manager that is still to be built, from any list of at most MaxConfigs
\* configurations.
InitConfig ==
    /\ users = Unloaded
    /\ clients = Unloaded
    /\ load_lock = FALSE
    /\ userObj = <<>>
    /\ credObj = <<>>
    /\ clientObj = <<>>
    /\ initialized = [p \in Providers |-> FALSE]
    /\ pc = [t \in Tasks |-> "idle"]
    /\ call = [t \in Tasks |-> NoCall]
    /\ log = <<>>
    /\ loadCount = 0
    /\ linkCalls = 0
    /\ initCount = [p \in Providers |-> 0]
    /\ flowCalls = [p \in Providers |-> 0]
    /\ flowCount = [p \in Providers |-> 0]
    /\ initDone = [p \in Providers |-> FALSE]
    /\ provider_configs \in UNION { [1..n -> Configs] : n \in 0..MaxConfigs }
    /\ providers = Unbuilt

\* ------------------------------------------------------------- providers
\* AuthProvider.async_create_credentials: a fresh Credentials object of the
\* provider's (type, id), is_new = True.  (The opaque `data` blob and the
\* generated id play no part in any store decision; the object's identity
\* is its index in credObj.)
AsyncCreateCredentials(p) ==
    /\ Len(credObj) < MaxCreds
    /\ credObj' = Append(credObj, [auth_provider_type |-> p[1],
                                   auth_provider_id |-> p[2],
                                   is_new |-> TRUE])
    /\ UNCHANGED <<users, clients, load_lock, userObj, clientObj, log, loadCount,
                   linkCalls, pc, call, flowVars, configVars>>

\* Credentials(auth_provider_type, auth_provider_id, data) constructed for
\* a provider this manager has not registered (one of another
\* configuration): is_new = True by default.
NewCredentials(p) ==
    /\ Len(credObj) < MaxCreds
    /\ credObj' = Append(credObj, [auth_provider_type |-> p[1],
                                   auth_provider_id |-> p[2],
                                   is_new |-> TRUE])
    /\ UNCHANGED <<users, clients, load_lock, userObj, clientObj, log, loadCount,
                   linkCalls, pc, call, flowVars, configVars>>

\* AuthManager._async_get_auth_provider: the key the provider is looked up by.
AuthProviderKey(c) == <<credObj[c].auth_provider_type, credObj[c].auth_provider_id>>

\* ------------------------------------------------------------- get_or_create_user
\* The condition of the lookup loop, as written in the source: the second
\* conjunct compares the candidate's auth_provider_id with itself.
CredsMatch(creds, credentials) ==
    /\ credObj[creds].auth_provider_type = credObj[credentials].auth_provider_type
    /\ credObj[creds].auth_provider_id = credObj[creds].auth_provider_id

UserMatches(u, credentials) ==
    \E i \in 1..Len(userObj[u].credentials) :
        CredsMatch(userObj[u].credentials[i], credentials)

\* for user in self.users: for creds in user.credentials: if ...: return user
\* and the ValueError after the loops.
FindUser(us, credentials) ==
    IF \E i \in 1..Len(us) : UserMatches(us[i], credentials)
    THEN us[CHOOSE i \in 1..Len(us) :
                /\ UserMatches(us[i], credentials)
                /\ \A j \in 1..(i - 1) : ~UserMatches(us[j], credentials)]
    ELSE Raise

\* Users a suspended get_or_create_user is about to construct.
PendingUsers ==
    Cardinality({ t \in Tasks :
        \/ pc[t] = "user_meta"
        \/ pc[t] = "load" /\ call[t].op = "get_or_create_user" })

\* Mutant of GetOrCreateUserBody: when the lookup finds no User, a new User
\* holding the credentials is created and returned instead of raising.
GetOrCreateUserBodyCreatesOnMiss(t, c, us, cl) ==
    /\ clients' = cl
    /\ UNCHANGED <<credObj, clientObj>>
    /\ IF credObj[c].is_new
       THEN /\ users' = us
            /\ UNCHANGED userObj
            /\ Suspend(t, "user_meta",
                   [NoCall EXCEPT !.op = "get_or_create_user", !.cred = c])
            /\ log' = <<>>
       ELSE IF FindUser(us, c) # Raise \/ Len(userObj) >= MaxUsers
       THEN /\ users' = us
            /\ UNCHANGED userObj
            /\ Finish(t)
            /\ log' = Push(log, [Done("get_or_create_user") EXCEPT
                                      !.cred = c, !.ret = FindUser(us, c)])
       ELSE /\ userObj' = Append(userObj,
                  [is_owner |-> FALSE, is_active |-> FALSE, name |-> "None",
                   credentials |-> <<c>>, tokens |-> <<>>])
            /\ users' = Append(us, Len(userObj) + 1)
            /\ Finish(t)
            /\ log' = Push(log, [Done("get_or_create_user") EXCEPT
                                      !.cred = c, !.ret = Len(userObj) + 1])

\* async_get_or_create_user from `if credentials.is_new:` on, with the store
\* holding users us and clients cl (the current ones, or the ones async_load
\* has just set).
GetOrCreateUserBody(t, c, us, cl) ==
    /\ users' = us
    /\ clients' = cl
    /\ UNCHANGED <<userObj, credObj, clientObj>>
    /\ IF credObj[c].is_new
       THEN \* await auth_provider.async_user_meta_for_credentials(credentials)
            /\ Suspend(t, "user_meta",
                   [NoCall EXCEPT !.op = "get_or_create_user", !.cred = c])
            /\ log' = <<>>
       ELSE /\ Finish(t)
            /\ log' = Push(log, [Done("get_or_create_user") EXCEPT
                                      !.cred = c, !.ret = FindUser(us, c),
                                      !.error = IF FindUser(us, c) = Raise
                                                THEN "ValueError" ELSE "none"])

\* Mutant of UserMetaReturns: owner and active for the first User ever
\* constructed, instead of for a User added to an empty collection.
UserMetaReturnsFirstEver(t) ==
    /\ pc[t] = "user_meta"
    /\ users # Unloaded
    /\ LET c == call[t].cred
           new_user == Len(userObj) + 1
           first == (userObj = <<>>)
       IN  /\ userObj' = Append(userObj,
                  [is_owner |-> first, is_active |-> first, name |-> "None",
                   credentials |-> <<c>>, tokens |-> <<>>])
           /\ users' = Append(users, new_user)
           /\ Suspend(t, "link_save", [call[t] EXCEPT !.user = new_user])
    /\ log' = <<>>
    /\ UNCHANGED <<clients, load_lock, credObj, clientObj, loadCount, linkCalls, flowVars, configVars>>

\* Mutant of UserMetaReturns: the test for the first user looks at the Users
\* whose save has completed (what is persisted) instead of the collection in
\* memory.
UserMetaReturnsCountsSaved(t) ==
    /\ pc[t] = "user_meta"
    /\ users # Unloaded
    /\ LET c == call[t].cred
           new_user == Len(userObj) + 1
           first == \A i \in 1..Len(users) :
                        \E s \in Tasks : pc[s] = "link_save" /\ call[s].user = users[i]
       IN  /\ userObj' = Append(userObj,
                  [is_owner |-> first, is_active |-> first, name |-> "None",
                   credentials |-> <<c>>, tokens |-> <<>>])
           /\ users' = Append(users, new_user)
           /\ Suspend(t, "link_save", [call[t] EXCEPT !.user = new_user])
    /\ log' = <<>>
    /\ UNCHANGED <<clients, load_lock, credObj, clientObj, loadCount, linkCalls, flowVars, configVars>>

\* async_user_meta_for_credentials returned: the rest of the is_new branch
\* up to the save inside async_link_user.
UserMetaReturns(t) ==
    /\ pc[t] = "user_meta"
    /\ users # Unloaded
    /\ LET c == call[t].cred
           new_user == Len(userObj) + 1
           \* `if self.users:` is false for the empty list
           first == (users = <<>>)
       IN  /\ userObj' = Append(userObj,
                  [is_owner |-> first, is_active |-> first, name |-> "None",
                   credentials |-> <<c>>, tokens |-> <<>>])
           /\ users' = Append(users, new_user)
           \* async_link_user: user.credentials.append; await self.async_save()
           /\ Suspend(t, "link_save", [call[t] EXCEPT !.user = new_user])
    /\ log' = <<>>
    /\ UNCHANGED <<clients, load_lock, credObj, clientObj, loadCount, linkCalls, flowVars, configVars>>

\* The provider's async_user_meta_for_credentials raised: the call ends
\* with nothing changed.
UserMetaRaises(t) ==
    /\ pc[t] = "user_meta"
    /\ Finish(t)
    /\ UNCHANGED <<users, clients, load_lock, userObj, credObj, clientObj,
                   loadCount, linkCalls, flowVars, configVars>>
    /\ log' = Push(log, [Done("get_or_create_user") EXCEPT
                              !.cred = call[t].cred,
                              !.is_new = credObj[call[t].cred].is_new,
                              !.ret = Raise, !.error = "ProviderError"])

\* User() constructed by a caller, outside get_or_create_user: every field
\* has its default (not owner, not active, no credentials, no tokens), and
\* the object is in no store.
NewUser ==
    /\ Len(userObj) + PendingUsers < MaxUsers
    /\ userObj' = Append(userObj,
           [is_owner |-> FALSE, is_active |-> FALSE, name |-> "None",
            credentials |-> <<>>, tokens |-> <<>>])
    /\ UNCHANGED <<users, clients, load_lock, credObj, clientObj, log, loadCount,
                   linkCalls, pc, call, flowVars, configVars>>

\* ------------------------------------------------------------- link_user
\* AuthStore.async_link_user up to its await of async_save.
AsyncLinkUser(t, u, c) ==
    /\ pc[t] = "idle"
    /\ u \in 1..Len(userObj)
    /\ c \in 1..Len(credObj)
    /\ linkCalls < MaxLinks
    /\ linkCalls' = linkCalls + 1
    /\ userObj' = [userObj EXCEPT ![u].credentials = Append(@, c)]
    /\ Suspend(t, "link_save",
           [NoCall EXCEPT !.op = "link_user", !.cred = c, !.user = u])
    /\ log' = <<>>
    /\ UNCHANGED <<users, clients, load_lock, credObj, clientObj, loadCount, flowVars, configVars>>

\* async_save returned inside async_link_user: credentials.is_new = False,
\* and the caller (link_user, or get_or_create_user returning new_user) ends.
LinkSaved(t) ==
    /\ pc[t] = "link_save"
    /\ credObj' = [credObj EXCEPT ![call[t].cred].is_new = FALSE]
    /\ Finish(t)
    /\ UNCHANGED <<users, clients, load_lock, userObj, clientObj, loadCount,
                   linkCalls, flowVars, configVars>>
    /\ log' = Push(log, [Done(call[t].op) EXCEPT
                              !.cred = call[t].cred,
                              !.is_new = credObj[call[t].cred].is_new,
                              !.user = call[t].user,
                              !.ret = IF call[t].op = "get_or_create_user"
                                      THEN call[t].user ELSE NoObject])

\* ------------------------------------------------------------- remove_user
RemoveOne(us, u) ==
    LET i == CHOOSE k \in 1..Len(us) : us[k] = u /\ \A j \in 1..(k - 1) : us[j] # u
    IN  SubSeq(us, 1, i - 1) \o SubSeq(us, i + 1, Len(us))

\* AuthStore.async_remove_user: self.users.remove(user) raises when users is
\* None or does not hold the user; otherwise the call suspends in save.
AsyncRemoveUser(t, u) ==
    /\ pc[t] = "idle"
    /\ u \in 1..Len(userObj)
    /\ UNCHANGED <<clients, load_lock, userObj, credObj, clientObj, loadCount,
                   linkCalls, flowVars, configVars>>
    /\ IF users = Unloaded \/ u \notin Range(users)
       THEN /\ Finish(t)
            /\ users' = users
            /\ log' = Push(log, [Done("remove_user") EXCEPT
                                      !.user = u, !.ret = Raise,
                                      !.error = IF users = Unloaded
                                                THEN "AttributeError"
                                                ELSE "ValueError"])
       ELSE /\ users' = RemoveOne(users, u)
            /\ Suspend(t, "remove_save", [NoCall EXCEPT !.op = "remove_user", !.user = u])
            /\ log' = <<>>

RemoveSaved(t) ==
    /\ pc[t] = "remove_save"
    /\ Finish(t)
    /\ UNCHANGED <<users, clients, load_lock, userObj, credObj, clientObj,
                   loadCount, linkCalls, flowVars, configVars>>
    /\ log' = Push(log, [Done("remove_user") EXCEPT !.user = call[t].user])

\* ------------------------------------------------------------- create_token
RECURSIVE TokensOf(_)
TokensOf(uo) == IF uo = <<>> THEN 0 ELSE Len(Head(uo).tokens) + TokensOf(Tail(uo))
TotalTokens == TokensOf(userObj)

\* AuthStore.async_create_token: the AuthToken is appended to user.tokens
\* (its client_id is what the model keeps of it), then save is awaited.
AsyncCreateToken(t, u, client_id) ==
    /\ pc[t] = "idle"
    /\ u \in 1..Len(userObj)
    /\ TotalTokens < MaxTokens
    /\ userObj' = [userObj EXCEPT ![u].tokens = Append(@, client_id)]
    /\ Suspend(t, "token_save",
           [NoCall EXCEPT !.op = "create_token", !.user = u, !.client = client_id])
    /\ log' = <<>>
    /\ UNCHANGED <<users, clients, load_lock, credObj, clientObj, loadCount, linkCalls, flowVars, configVars>>

TokenSaved(t) ==
    /\ pc[t] = "token_save"
    /\ Finish(t)
    /\ UNCHANGED <<users, clients, load_lock, userObj, credObj, clientObj,
                   loadCount, linkCalls, flowVars, configVars>>
    /\ log' = Push(log, [Done("create_token") EXCEPT
                              !.user = call[t].user, !.client_id = call[t].client])

\* ------------------------------------------------------------- clients
PendingClients ==
    Cardinality({ t \in Tasks : pc[t] = "load" /\ call[t].op = "create_client" })

\* async_create_client after the load check: Client(name) is appended to
\* self.clients and save is awaited.  (Client.secret is generated here; no
\* store decision reads it.)
CreateClientBody(t, name, us, cl) ==
    LET client == Len(clientObj) + 1
    IN  /\ clientObj' = Append(clientObj, [name |-> name, id |-> client])
        /\ clients' = Append(cl, client)
        /\ users' = us
        /\ Suspend(t, "client_save",
               [NoCall EXCEPT !.op = "create_client", !.client = client])
        /\ log' = <<>>
        /\ UNCHANGED <<userObj, credObj>>

ClientSaved(t) ==
    /\ pc[t] = "client_save"
    /\ Finish(t)
    /\ UNCHANGED <<users, clients, load_lock, userObj, credObj, clientObj,
                   loadCount, linkCalls, flowVars, configVars>>
    /\ log' = Push(log, [Done("create_client") EXCEPT !.ret = call[t].client])

\* async_get_clients after the load check: return self.clients.
GetClientsBody(t, us, cl) ==
    /\ users' = us
    /\ clients' = cl
    /\ Finish(t)
    /\ UNCHANGED <<userObj, credObj, clientObj>>
    /\ log' = Push(log, [Done("get_clients") EXCEPT !.list = cl])

\* hmac.compare_digest on two ids: true exactly when they are equal.
CompareDigest(a, b) == a = b

\* Mutant of SecureScan: a mismatch sets found back to None.
RECURSIVE SecureScanForgets(_, _, _, _, _)
SecureScanForgets(cl, client_id, i, found, steps) ==
    IF i > Len(cl)
    THEN [found |-> found, steps |-> steps]
    ELSE SecureScanForgets(cl, client_id, i + 1,
                           IF CompareDigest(client_id, clientObj[cl[i]].id)
                           THEN cl[i] ELSE NoObject,
                           steps + 1)

\* Mutant of SecureScan: the loop returns at the first match.
RECURSIVE SecureScanReturnsEarly(_, _, _, _, _)
SecureScanReturnsEarly(cl, client_id, i, found, steps) ==
    IF i > Len(cl)
    THEN [found |-> found, steps |-> steps]
    ELSE IF CompareDigest(client_id, clientObj[cl[i]].id)
    THEN [found |-> cl[i], steps |-> steps + 1]
    ELSE SecureScanReturnsEarly(cl, client_id, i + 1, found, steps + 1)

\* The loop of async_secure_get_client from position i on: found and the
\* number of comparisons made so far are carried along.
RECURSIVE SecureScan(_, _, _, _, _)
SecureScan(cl, client_id, i, found, steps) ==
    IF i > Len(cl)
    THEN [found |-> found, steps |-> steps]
    ELSE SecureScan(cl, client_id, i + 1,
                    IF CompareDigest(client_id, clientObj[cl[i]].id)
                    THEN cl[i] ELSE found,
                    steps + 1)

\* async_secure_get_client once async_get_clients has returned cl.
SecureGetClientBody(t, client_id, us, cl) ==
    LET r == SecureScan(cl, client_id, 1, NoObject, 0)
    IN  /\ users' = us
        /\ clients' = cl
        /\ Finish(t)
        /\ UNCHANGED <<userObj, credObj, clientObj>>
        /\ log' = Push(log, [Done("secure_get_client") EXCEPT
                                  !.client_id = client_id, !.list = cl,
                                  !.ret = r.found, !.steps = r.steps])

\* ------------------------------------------------------------- reads of users
\* async_get_user after the load check.  User.id is the object's identity.
GetUserBody(t, user_id, us, cl) ==
    /\ users' = us
    /\ clients' = cl
    /\ Finish(t)
    /\ UNCHANGED <<userObj, credObj, clientObj>>
    /\ log' = Push(log, [Done("get_user") EXCEPT
                              !.user = user_id,
                              !.ret = IF user_id \in Range(us)
                                      THEN user_id ELSE NoObject])

\* Mutant of MatchingCreds: the provider's type is compared, its id is not.
RECURSIVE MatchingCredsByType(_, _)
MatchingCredsByType(creds, p) ==
    IF creds = <<>> THEN <<>>
    ELSE (IF credObj[Head(creds)].auth_provider_type = p[1]
          THEN <<Head(creds)>> ELSE <<>>) \o MatchingCredsByType(Tail(creds), p)

\* The credentials of one user that match (provider_type, provider_id).
RECURSIVE MatchingCreds(_, _)
MatchingCreds(creds, p) ==
    IF creds = <<>> THEN <<>>
    ELSE (IF /\ credObj[Head(creds)].auth_provider_type = p[1]
             /\ credObj[Head(creds)].auth_provider_id = p[2]
          THEN <<Head(creds)>> ELSE <<>>) \o MatchingCreds(Tail(creds), p)

\* The nested loops of credentials_for_provider over the users us.
RECURSIVE CredentialsOf(_, _)
CredentialsOf(us, p) ==
    IF us = <<>> THEN <<>>
    ELSE MatchingCreds(userObj[Head(us)].credentials, p) \o CredentialsOf(Tail(us), p)

CredentialsForProviderBody(t, p, us, cl) ==
    /\ users' = us
    /\ clients' = cl
    /\ Finish(t)
    /\ UNCHANGED <<userObj, credObj, clientObj>>
    /\ log' = Push(log, [Done("credentials_for_provider") EXCEPT
                              !.provider = p, !.list = CredentialsOf(us, p)])

\* ------------------------------------------------------------- calls and load
\* `if self.users is None: await self.async_load()` (or self.clients): a
\* caller that finds the store unloaded suspends in async_load, remembering
\* its call; any other caller goes on at once.
AwaitLoad(t, c) ==
    /\ Suspend(t, "load", c)
    /\ log' = <<>>
    /\ UNCHANGED <<users, clients, userObj, credObj, clientObj>>

\* Mutant of AsyncGetOrCreateUser: the provider is looked up by its type
\* alone.
AsyncGetOrCreateUserByType(t, c) ==
    /\ pc[t] = "idle"
    /\ c \in 1..Len(credObj)
    /\ IF \A p \in Providers : p[1] # credObj[c].auth_provider_type
       THEN /\ Finish(t)
            /\ UNCHANGED <<users, clients, userObj, credObj, clientObj>>
            /\ log' = Push(log, [Done("get_or_create_user") EXCEPT
                                      !.cred = c, !.is_new = credObj[c].is_new,
                                      !.ret = Raise, !.error = "KeyError"])
       ELSE /\ credObj[c].is_new => Len(userObj) + PendingUsers < MaxUsers
            /\ IF users = Unloaded
               THEN AwaitLoad(t, [NoCall EXCEPT !.op = "get_or_create_user",
                                                !.cred = c])
               ELSE GetOrCreateUserBody(t, c, users, clients)
    /\ UNCHANGED <<load_lock, loadCount, linkCalls, flowVars, configVars>>

\* AuthManager.async_get_or_create_user: _async_get_auth_provider is
\* evaluated first, as an argument of the store call; self._providers[key]
\* raises KeyError for a key that is not registered.
AsyncGetOrCreateUser(t, c) ==
    /\ pc[t] = "idle"
    /\ c \in 1..Len(credObj)
    /\ IF AuthProviderKey(c) \notin Providers
       THEN /\ Finish(t)
            /\ UNCHANGED <<users, clients, userObj, credObj, clientObj>>
            /\ log' = Push(log, [Done("get_or_create_user") EXCEPT
                                      !.cred = c, !.is_new = credObj[c].is_new,
                                      !.ret = Raise, !.error = "KeyError"])
       ELSE /\ credObj[c].is_new => Len(userObj) + PendingUsers < MaxUsers
            /\ IF users = Unloaded
               THEN AwaitLoad(t, [NoCall EXCEPT !.op = "get_or_create_user",
                                                !.cred = c])
               ELSE GetOrCreateUserBody(t, c, users, clients)
    /\ UNCHANGED <<load_lock, loadCount, linkCalls, flowVars, configVars>>

AsyncCreateClient(t, name) ==
    /\ pc[t] = "idle"
    /\ Len(clientObj) + PendingClients < MaxClients
    /\ IF clients = Unloaded
       THEN AwaitLoad(t, [NoCall EXCEPT !.op = "create_client", !.handler = <<name>>])
       ELSE CreateClientBody(t, name, users, clients)
    /\ UNCHANGED <<load_lock, loadCount, linkCalls, flowVars, configVars>>

AsyncGetClients(t) ==
    /\ pc[t] = "idle"
    /\ IF clients = Unloaded
       THEN AwaitLoad(t, [NoCall EXCEPT !.op = "get_clients"])
       ELSE GetClientsBody(t, users, clients)
    /\ UNCHANGED <<load_lock, loadCount, linkCalls, flowVars, configVars>>

AsyncSecureGetClient(t, client_id) ==
    /\ pc[t] = "idle"
    /\ IF clients = Unloaded
       THEN AwaitLoad(t, [NoCall EXCEPT !.op = "secure_get_client",
                                        !.client = client_id])
       ELSE SecureGetClientBody(t, client_id, users, clients)
    /\ UNCHANGED <<load_lock, loadCount, linkCalls, flowVars, configVars>>

AsyncGetUser(t, user_id) ==
    /\ pc[t] = "idle"
    /\ IF users = Unloaded
       THEN AwaitLoad(t, [NoCall EXCEPT !.op = "get_user", !.user = user_id])
       ELSE GetUserBody(t, user_id, users, clients)
    /\ UNCHANGED <<load_lock, loadCount, linkCalls, flowVars, configVars>>

CredentialsForProvider(t, p) ==
    /\ pc[t] = "idle"
    /\ IF users = Unloaded
       THEN AwaitLoad(t, [NoCall EXCEPT !.op = "credentials_for_provider",
                                        !.handler = p])
       ELSE CredentialsForProviderBody(t, p, users, clients)
    /\ UNCHANGED <<load_lock, loadCount, linkCalls, flowVars, configVars>>

\* AuthStore.async_load: the lock is taken, users and clients are set to
\* empty lists, the lock is released (the body has no await, so the three
\* happen in one step), and the caller goes on after its load check.
AsyncLoad(t) ==
    /\ pc[t] = "load"
    /\ ~load_lock
    /\ load_lock' = FALSE
    /\ loadCount' = loadCount + 1
    /\ LET c == call[t]
       IN  CASE c.op = "get_or_create_user" ->
                    GetOrCreateUserBody(t, c.cred, <<>>, <<>>)
             [] c.op = "create_client" -> CreateClientBody(t, c.handler[1], <<>>, <<>>)
             [] c.op = "get_clients" -> GetClientsBody(t, <<>>, <<>>)
             [] c.op = "secure_get_client" ->
                    SecureGetClientBody(t, c.client, <<>>, <<>>)
             [] c.op = "get_user" -> GetUserBody(t, c.user, <<>>, <<>>)
             [] c.op = "credentials_for_provider" ->
                    CredentialsForProviderBody(t, c.handler, <<>>, <<>>)
    /\ UNCHANGED <<linkCalls, flowVars, configVars>>

\* ------------------------------------------------------------- login flow
\* Mutant of AsyncCreateLoginFlow: initialized is not set.
AsyncCreateLoginFlowNoFlag(t, handler) ==
    /\ pc[t] = "idle"
    /\ handler \in Providers
    /\ flowCalls[handler] < MaxFlows
    /\ flowCalls' = [flowCalls EXCEPT ![handler] = @ + 1]
    /\ IF ~initialized[handler]
       THEN /\ initCount' = [initCount EXCEPT ![handler] = @ + 1]
            /\ UNCHANGED initialized
            /\ Suspend(t, "initialize",
                   [NoCall EXCEPT !.op = "create_login_flow", !.handler = handler])
       ELSE /\ UNCHANGED <<initialized, initCount>>
            /\ Suspend(t, "credential_flow",
                   [NoCall EXCEPT !.op = "create_login_flow", !.handler = handler])
    /\ UNCHANGED <<storeVars, flowCount, initDone, configVars>>

\* AuthManager._async_create_login_flow up to its first await.
AsyncCreateLoginFlow(t, handler) ==
    /\ pc[t] = "idle"
    /\ handler \in Providers
    /\ flowCalls[handler] < MaxFlows
    /\ flowCalls' = [flowCalls EXCEPT ![handler] = @ + 1]
    /\ IF ~initialized[handler]
       THEN /\ initialized' = [initialized EXCEPT ![handler] = TRUE]
            /\ initCount' = [initCount EXCEPT ![handler] = @ + 1]
            /\ Suspend(t, "initialize",
                   [NoCall EXCEPT !.op = "create_login_flow", !.handler = handler])
       ELSE /\ UNCHANGED <<initialized, initCount>>
            /\ Suspend(t, "credential_flow",
                   [NoCall EXCEPT !.op = "create_login_flow", !.handler = handler])
    /\ UNCHANGED <<storeVars, flowCount, initDone, configVars>>

\* async_initialize returned: go on to await async_credential_flow().
InitializeReturns(t) ==
    /\ pc[t] = "initialize"
    /\ pc' = [pc EXCEPT ![t] = "credential_flow"]
    /\ initDone' = [initDone EXCEPT ![call[t].handler] = TRUE]
    /\ UNCHANGED <<storeVars, initialized, initCount, flowCalls, flowCount, call,
                   configVars>>

\* async_initialize raised: the call ends, initialized stays True.
InitializeRaises(t) ==
    /\ pc[t] = "initialize"
    /\ Finish(t)
    /\ UNCHANGED <<storeVars, flowVars, configVars>>

\* async_credential_flow returned its flow, which the call returns.
CredentialFlowReturns(t) ==
    /\ pc[t] = "credential_flow"
    /\ flowCount' = [flowCount EXCEPT ![call[t].handler] = @ + 1]
    /\ Finish(t)
    /\ UNCHANGED <<storeVars, initialized, initCount, flowCalls, initDone,
                   configVars>>

\* ------------------------------------------------------------- specifications
ProviderStep == \E p \in Providers : AsyncCreateCredentials(p)

\* The store methods that load the store when they find it unloaded, with
\* the steps that resume them.
LoadingStep(t) ==
    \/ \E c \in 1..MaxCreds : AsyncGetOrCreateUser(t, c)
    \/ UserMetaReturns(t)
    \/ UserMetaRaises(t)
    \/ LinkSaved(t)
    \/ \E name \in ClientNames : AsyncCreateClient(t, name)
    \/ ClientSaved(t)
    \/ AsyncGetClients(t)
    \/ \E client_id \in ClientIdArgs : AsyncSecureGetClient(t, client_id)
    \/ \E user_id \in 1..(MaxUsers + 1) : AsyncGetUser(t, user_id)
    \/ \E p \in Providers : CredentialsForProvider(t, p)
    \/ AsyncLoad(t)

\* The store methods that take a User the caller already holds.
UserStep(t) ==
    \/ \E u \in 1..MaxUsers, c \in 1..MaxCreds : AsyncLinkUser(t, u, c)
    \/ \E u \in 1..MaxUsers : AsyncRemoveUser(t, u)
    \/ RemoveSaved(t)
    \/ \E u \in 1..MaxUsers, client_id \in TokenClientIds : AsyncCreateToken(t, u, client_id)
    \/ TokenSaved(t)

StoreStep(t) == LoadingStep(t) \/ UserStep(t)

FlowStep(t) ==
    \/ \E handler \in Providers : AsyncCreateLoginFlow(t, handler)
    \/ InitializeReturns(t)
    \/ InitializeRaises(t)
    \/ CredentialFlowReturns(t)

Next == ProviderStep \/ \E t \in Tasks : StoreStep(t) \/ FlowStep(t)

\* Everything, any interleaving of the tasks.
Spec == Init /\ [][Next]_vars

\* The store operations called one after the other by a single task.
NextSeq == ProviderStep \/ StoreStep(1)
SpecSeq == Init /\ [][NextSeq]_vars

\* Tasks that call the loading methods of the store, any interleaving.
NextLoad == ProviderStep \/ \E t \in Tasks : LoadingStep(t)
SpecLoad == Init /\ [][NextLoad]_vars

\* Tasks that call the client operations only, any interleaving.
ClientStep(t) ==
    \/ \E name \in ClientNames : AsyncCreateClient(t, name)
    \/ ClientSaved(t)
    \/ AsyncGetClients(t)
    \/ \E client_id \in ClientIdArgs : AsyncSecureGetClient(t, client_id)
    \/ AsyncLoad(t)

NextClients == \E t \in Tasks : ClientStep(t)
SpecClients == Init /\ [][NextClients]_vars

\* The operations that create, link and remove users, with the steps that
\* resume them.
MutatingStep(t) ==
    \/ \E c \in 1..MaxCreds : AsyncGetOrCreateUser(t, c)
    \/ UserMetaReturns(t)
    \/ UserMetaRaises(t)
    \/ LinkSaved(t)
    \/ AsyncLoad(t)
    \/ UserStep(t)

\* A caller that also holds objects it did not get from this manager:
\* Credentials of providers that are not registered and Users it has
\* constructed; its calls are made one after the other.
CallerStep ==
    \/ \E p \in UnregisteredProviders : NewCredentials(p)
    \/ NewUser
NextKeys == ProviderStep \/ CallerStep \/ MutatingStep(1)
SpecKeys == Init /\ [][NextKeys]_vars

\* Building the manager from a list of configurations.
NextConfig == AuthManagerFromConfig
SpecConfig == InitConfig /\ [][NextConfig]_vars

\* Tasks that create users (get_or_create_user) and remove them, any
\* interleaving.
CreateRemoveStep(t) ==
    \/ \E c \in 1..MaxCreds : AsyncGetOrCreateUser(t, c)
    \/ UserMetaReturns(t)
    \/ UserMetaRaises(t)
    \/ LinkSaved(t)
    \/ AsyncLoad(t)
    \/ \E u \in 1..MaxUsers : AsyncRemoveUser(t, u)
    \/ RemoveSaved(t)

NextUsers == ProviderStep \/ \E t \in Tasks : CreateRemoveStep(t)
SpecUsers == Init /\ [][NextUsers]_vars

\* The login-flow bridge, any interleaving of the tasks.
NextFlow == \E t \in Tasks : FlowStep(t)
SpecFlow == Init /\ [][NextFlow]_vars

\* ------------------------------------------------------------- properties
Last(l) == l[Len(l)]

\* How often Credentials c occurs in the credentials of User objects.
RECURSIVE CountIn(_, _)
CountIn(creds, c) ==
    IF creds = <<>> THEN 0
    ELSE (IF Head(creds) = c THEN 1 ELSE 0) + CountIn(Tail(creds), c)

RECURSIVE Occurrences(_, _)
Occurrences(uo, c) ==
    IF uo = <<>> THEN 0
    ELSE CountIn(Head(uo).credentials, c) + Occurrences(Tail(uo), c)

\* C1 (as claimed): exactly the first User ever created is owner and active,
\* every User created after it is neither.
C1_OnlyFirstCreatedIsOwner ==
    \A u \in 1..Len(userObj) :
        /\ userObj[u].is_owner <=> (u = 1)
        /\ userObj[u].is_active <=> (u = 1)

\* C1 (amended): a User is created owner and active exactly when the users
\* collection is empty at the moment it is created, and with both flags
\* false otherwise; the first User ever created is owner and active; the
\* flags of a User never change afterwards.
C1_OwnerIffStoreEmptyAtCreation ==
    /\ [](Len(userObj) >= 1 => userObj[1].is_owner /\ userObj[1].is_active)
    /\ [][/\ \A u \in 1..Len(userObj') :
                u > Len(userObj) =>
                    /\ userObj'[u].is_owner = (users = <<>>)
                    /\ userObj'[u].is_active = (users = <<>>)
          /\ \A u \in 1..Len(userObj) :
                /\ userObj'[u].is_owner = userObj[u].is_owner
                /\ userObj'[u].is_active = userObj[u].is_active]_vars

\* A second owner: created after the first User was removed.
C1_Witness ==
    /\ Len(userObj) = 2
    /\ userObj[1].is_owner /\ userObj[2].is_owner /\ userObj[2].is_active
    /\ users = <<2>>

C4_LinkedAtMostOnce ==
    \A c \in 1..Len(credObj) : Occurrences(userObj, c) <= 1

\* C5: two get_or_create_user calls in a row with the same Credentials whose
\* is_new is false have the same outcome, and the users collection (with
\* each User's credentials) is the same before and after both.
C5_SameUserNoCreation ==
    (/\ Len(log) = 2
     /\ log[1].op = "get_or_create_user" /\ log[2].op = "get_or_create_user"
     /\ log[1].cred = log[2].cred
     /\ ~log[1].is_new /\ ~log[2].is_new)
    => /\ log[1].ret = log[2].ret
       /\ log[1].before = log[1].after
       /\ log[1].after = log[2].before
       /\ log[2].before = log[2].after

C5_Witness ==
    /\ Len(log) = 2
    /\ log[1].op = "get_or_create_user" /\ log[2].op = "get_or_create_user"
    /\ log[1].cred = log[2].cred
    /\ ~log[1].is_new /\ ~log[2].is_new
    /\ log[2].ret >= 1
    /\ Len(users) = 2

\* Credentials k belongs to the same provider instance (type and id) as c.
SameProvider(k, c) ==
    /\ credObj[k].auth_provider_type = credObj[c].auth_provider_type
    /\ credObj[k].auth_provider_id = credObj[c].auth_provider_id

HoldsSameProvider(u, c) ==
    \E i \in 1..Len(userObj[u].credentials) : SameProvider(userObj[u].credentials[i], c)

\* C6: get_or_create_user with Credentials whose is_new is false returns a
\* User only if that User holds a credential of the same type and id.
C6_ReturnedUserHoldsSameProvider ==
    (/\ log # <<>>
     /\ Last(log).op = "get_or_create_user"
     /\ ~Last(log).is_new
     /\ Last(log).ret >= 1)
    => HoldsSameProvider(Last(log).ret, Last(log).cred)

\* C7: get_or_create_user with Credentials whose is_new is false, when no
\* User of the store holds a credential of the same type and id, raises and
\* leaves the users collection as it was.
C7_NoMatchRaises ==
    (/\ log # <<>>
     /\ Last(log).op = "get_or_create_user"
     /\ ~Last(log).is_new
     /\ \A i \in 1..Len(Last(log).before) :
            ~HoldsSameProvider(Last(log).before[i].user, Last(log).cred))
    => /\ Last(log).ret = Raise
       /\ Last(log).before = Last(log).after

\* C8: secure_get_client returns the registered Client whose id is client_id
\* and None when there is none; get_clients returns exactly the Clients
\* created so far, in the order of their creation.
C8_ClientLookup ==
    /\ (log # <<>> /\ Last(log).op = "secure_get_client") =>
          IF \E i \in 1..Len(clients) : clientObj[clients[i]].id = Last(log).client_id
          THEN /\ Last(log).ret \in Range(clients)
               /\ clientObj[Last(log).ret].id = Last(log).client_id
          ELSE Last(log).ret = NoObject
    /\ (log # <<>> /\ Last(log).op = "get_clients") =>
          Last(log).list = [i \in 1..Len(clientObj) |-> i]

C8_Witness ==
    /\ log # <<>>
    /\ Last(log).op = "secure_get_client"
    /\ Len(clients) = 2
    /\ Last(log).ret = clients[2]

\* C9: secure_get_client on a store with N clients makes exactly N id
\* comparisons, and a run with any other client_id on the same clients
\* makes the same number.
C9_FixedWork ==
    (log # <<>> /\ Last(log).op = "secure_get_client") =>
        /\ Last(log).list = clients
        /\ Last(log).steps = Len(clients)
        /\ \A other \in ClientIdArgs :
              SecureScan(clients, other, 1, NoObject, 0).steps = Last(log).steps

\* A lookup that matched the first of two clients.
C9_Witness ==
    /\ log # <<>>
    /\ Last(log).op = "secure_get_client"
    /\ Len(clients) = 2
    /\ Last(log).ret = clients[1]
    /\ Last(log).steps = 2

\* C10: for each provider async_initialize is invoked at most once, and
\* once as soon as a create_login_flow call was made for it, so before any
\* credential flow is returned.
C10_InitializedOnce ==
    \A p \in Providers :
        /\ initCount[p] <= 1
        /\ flowCalls[p] >= 1 => initCount[p] = 1
        /\ flowCount[p] >= 1 => initCount[p] = 1

\* Two flows returned for one provider, by calls that overlapped.
C10_Witness ==
    \E p \in Providers :
        /\ flowCount[p] = 2
        /\ initCount[p] = 1

\* C11: get_or_create_user with Credentials whose (type, id) key is not a
\* registered provider raises the lookup error (KeyError) and changes
\* nothing: the call never reaches the store, the users and every User's
\* credentials are as before, and is_new keeps its value.
C11_UnregisteredKeyRaises ==
    /\ \A t \in Tasks :
          call[t].op = "get_or_create_user" =>
              AuthProviderKey(call[t].cred) \in Providers
    /\ (/\ log # <<>>
        /\ Last(log).op = "get_or_create_user"
        /\ AuthProviderKey(Last(log).cred) \notin Providers)
       => /\ Last(log).ret = Raise
          /\ Last(log).error = "KeyError"
          /\ ~Last(log).changed
          /\ Last(log).before = Last(log).after
          /\ credObj[Last(log).cred].is_new = Last(log).is_new

\* The call was made with new Credentials of an unregistered key on a
\* loaded store that has a User.
C11_Witness ==
    /\ log # <<>>
    /\ Last(log).op = "get_or_create_user"
    /\ AuthProviderKey(Last(log).cred) \notin Providers
    /\ Last(log).error = "KeyError"
    /\ credObj[Last(log).cred].is_new
    /\ users # Unloaded /\ Len(users) = 1

\* C12: the manager registers at most one provider per (type, id) key: no
\* registered provider comes from a configuration that failed to load or
\* validate, a loaded configuration is registered exactly when no loaded
\* configuration before it has its key (the first one is kept, later ones
\* are dropped), and the registered providers are in configuration order.
C12_FirstProviderPerKey ==
    providers # Unbuilt =>
        /\ \A k \in 1..Len(providers) :
              /\ providers[k] \in 1..Len(provider_configs)
              /\ provider_configs[providers[k]].outcome = "provider"
        /\ \A k, l \in 1..Len(providers) :
              k < l => /\ providers[k] < providers[l]
                       /\ ProviderKey(provider_configs, providers[k])
                              # ProviderKey(provider_configs, providers[l])
        /\ \A i \in 1..Len(provider_configs) :
              provider_configs[i].outcome = "provider" =>
                  (i \in Range(providers) <=>
                      \A j \in 1..(i - 1) :
                          provider_configs[j].outcome = "provider" =>
                              ProviderKey(provider_configs, j)
                                  # ProviderKey(provider_configs, i))

\* Three configurations of one key: the first is invalid, the second is
\* registered, the third (another name) is dropped.
C12_Witness ==
    /\ Len(provider_configs) = 3
    /\ providers = <<2>>
    /\ provider_configs[1].outcome = "invalid"
    /\ provider_configs[3].outcome = "provider"
    /\ provider_configs[2].name # provider_configs[3].name
    /\ ProviderKey(provider_configs, 1) = ProviderKey(provider_configs, 2)
    /\ ProviderKey(provider_configs, 2) = ProviderKey(provider_configs, 3)

\* C13: at most one User of the users collection is owner, in every state
\* of any interleaving of get_or_create_user and remove_user calls.
C13_AtMostOneOwner ==
    users # Unloaded =>
        Cardinality({ i \in 1..Len(users) : userObj[users[i]].is_owner }) <= 1

\* Two get_or_create_user calls that overlapped: both have created their
\* User and are suspended in save.
C13_Witness ==
    /\ \A t \in Tasks : pc[t] = "link_save" /\ call[t].op = "get_or_create_user"
    /\ Len(users) = 2
    /\ userObj[users[1]].is_owner
    /\ ~userObj[users[2]].is_owner

\* C14: in every state, also while link_user is suspended in save, a
\* Credentials object has is_new = true exactly when it is in no User's
\* credentials.
C14_NewIffUnlinked ==
    \A c \in 1..Len(credObj) :
        credObj[c].is_new <=> (Occurrences(userObj, c) = 0)

\* C15: a provider's async_credential_flow is invoked, and a credential
\* flow obtained from it, only after an async_initialize call of that
\* provider has returned; in particular not while the initialization
\* started by another caller is still suspended.
C15_FlowOnlyAfterInitialize ==
    /\ \A t \in Tasks :
          pc[t] = "credential_flow" => initDone[call[t].handler]
    /\ \A p \in Providers : flowCount[p] >= 1 => initDone[p]

\* The Store operations that change what the store holds.
MutatingOps ==
    {"get_or_create_user", "link_user", "remove_user", "create_token", "create_client"}

\* C16: every mutating operation saves after its mutations: when it
\* returns (get_or_create_user: having created a User), the code it ran
\* after its last call of save has changed nothing of the users, the
\* credentials and tokens of a User, the is_new flags and the clients.
C16_SavedAfterMutation ==
    (/\ log # <<>>
     /\ Last(log).op \in MutatingOps
     /\ Last(log).ret # Raise
     /\ Last(log).op = "get_or_create_user" => Last(log).is_new)
    => ~Last(log).changed

\* C17: the load gate is held whenever the loaded state is tested or the
\* collections are initialised: a task that has found the store unloaded
\* and goes on to load it holds the gate, the gate is held only while a
\* task is loading, and it is free when no task is loading.
C17_LoadedTestedUnderGate ==
    /\ \A t \in Tasks : pc[t] = "load" => load_lock
    /\ load_lock => Cardinality({ t \in Tasks : pc[t] = "load" }) >= 1
    /\ (\A t \in Tasks : pc[t] # "load") => ~load_lock

\* C18: credentials_for_provider(type, id) returns exactly the credentials
\* of the Users in the store whose type and id are the ones asked for:
\* every one returned is held by a stored User and matches both fields, and
\* every such credential is returned.
C18_ExactlyMatchingOfStoredUsers ==
    (log # <<>> /\ Last(log).op = "credentials_for_provider") =>
        Range(Last(log).list) =
            { c \in 1..Len(credObj) :
                /\ credObj[c].auth_provider_type = Last(log).provider[1]
                /\ credObj[c].auth_provider_id = Last(log).provider[2]
                /\ \E i \in 1..Len(users) :
                      CountIn(userObj[users[i]].credentials, c) >= 1 }

\* Two Users with credentials of the provider asked for; the first was
\* removed, and the credential of the second is what is returned.
C18_Witness ==
    /\ log # <<>>
    /\ Last(log).op = "credentials_for_provider"
    /\ Last(log).list = <<2>>
    /\ users = <<2>>
    /\ Len(userObj) = 2
    /\ userObj[1].credentials = <<1>>
    /\ SameProvider(1, 2)

\* C19: round trip of get_or_create_user: called again with Credentials c
\* for which it created User U (c is the first of U's credentials), while U
\* is in the store, it returns U.
C19_ReturnsTheUserCreatedForIt ==
    (/\ log # <<>>
     /\ Last(log).op = "get_or_create_user"
     /\ ~Last(log).is_new)
    => \A i \in 1..Len(Last(log).before) :
          (/\ Last(log).before[i].credentials # <<>>
           /\ Head(Last(log).before[i].credentials) = Last(log).cred)
          => Last(log).ret = Last(log).before[i].user

\* The Store operations that read or change the users or the clients
\* collection (link_user and create_token work on the User they are given).
CollectionOps ==
    {"get_or_create_user", "remove_user", "create_client", "get_clients",
     "secure_get_client", "get_user", "credentials_for_provider"}

\* C20: the store is lazy for every operation: users and clients are both
\* unloaded or both loaded, and a Store operation that needs a collection
\* has loaded the store before using it, so when it ends the store is
\* loaded and it has not failed on a collection that is still None.  (A
\* get_or_create_user that raised KeyError never entered the store.)
C20_LazyForEveryOperation ==
    /\ (users = Unloaded) <=> (clients = Unloaded)
    /\ (/\ log # <<>>
        /\ Last(log).op \in CollectionOps
        /\ Last(log).error # "KeyError")
       => /\ users # Unloaded
          /\ Last(log).error # "AttributeError"

====
